---------------------------- MODULE Spec2Model ----------------------------
(***************************************************************************)
(* A model of the stock-market tool server in src/mcp/server.py.           *)
(*                                                                         *)
(* Each tool is a handler that runs from its call to its return; between   *)
(* two statements that talk to the data provider (yfinance) or to the      *)
(* indicator library (pandas_ta) the handler is at a position pc, and the  *)
(* answer of the provider or the library is drawn from a bounded set.      *)
(* The provider and the library are not part of the repository: every      *)
(* answer they can give (a value, nothing, a raised exception) is a        *)
(* nondeterministic choice.                                                *)
(*                                                                         *)
(*   SpecPrice  get_price_history                                          *)
(*   SpecNews   get_stock_news                                             *)
(*   SpecInfo   get_stock_info (with the lookup and the news it calls)     *)
(*   SpecLookup get_stock_symbol_lookup                                    *)
(*   SpecSearch search                                                     *)
(*   SpecServer all the tools, one invocation after the other              *)
(*   SpecConvertFair  get_stock_price_yfinance of src/mcp/test.py          *)
(***************************************************************************)
EXTENDS Integers, Sequences, FiniteSets, TLC

VARIABLES
    pc,         \* position of the running handler ("idle" when none runs)
    symbol,     \* the handler's parameter / local `symbol`
    calls,      \* provider and library calls made by the running request, in order
    warnings,   \* logger.warning records of the running request, in order
    result,     \* what the handler gave its caller: a value or a propagated exception
    fetched,    \* get_price_history: the frame ticker.history returned (history variable)
    df,         \* get_price_history: local `df`
    rsi,        \* get_price_history: the value of ta.rsi(df["Close"])
    macd,       \* get_price_history: local `macd`
    bb,         \* get_price_history: local `bb`
    news,       \* get_stock_news: local `news`, the provider's answer
    si,         \* get_stock_info: its locals, one field per local variable
    query,      \* get_stock_symbol_lookup, search: the parameter `query`
    search_type, \* search: the parameter `search_type`
    search,     \* get_stock_symbol_lookup, search: what yf.Search(query) gave
    warm,       \* TRUE once an invocation has returned to the server (history variable)
    ty          \* get_stock_price_yfinance (test.py): its locals, one field per local

vars == <<pc, symbol, calls, warnings, result, fetched, df, rsi, macd, bb, news, si,
          query, search_type, search, warm, ty>>

priceVars == <<fetched, df, rsi, macd, bb>>
otherVars == <<news, si>>
searchVars == <<query, search_type, search>>

-----------------------------------------------------------------------------
(* Bounds of the model *)

\* longest price series the provider returns
MaxBars == 22
\* positions (from the start of the series) at which the low and the high close are put
MaxPos == 2
\* a library result may start up to MaxDrop bars after the price series does
MaxDrop == 1

(* Program constants *)

\* rolling(window=20, ...)
Window == 20
\* rolling(..., min_periods=1)
MinPeriods == 1

-----------------------------------------------------------------------------
(* Values *)

\* a cell is <<n>> for the number n, and <<>> when the value is missing (NaN, None)
NaN == <<>>
Num(n) == <<n>>
None == [kind |-> "none"]
NoResult == [kind |-> "pending"]
NoFrame == [columns |-> <<>>, rows |-> <<>>]
NoLocals == [kind |-> "none"]

\* one call to the provider or the library: what is called, for which symbol
Call(op, of) == [op |-> op, of |-> of]
Ops(log) == {log[i].op : i \in DOMAIN log}

Symbols == {"AAPL", "APPL"}
\* get_price_history reads its symbol only to pass it to the provider and to log it
PriceSymbols == {"AAPL"}

Min(S) == CHOOSE x \in S : \A y \in S : x <= y
Max(S) == CHOOSE x \in S : \A y \in S : x >= y

\* s is a prefix of t
IsPrefix(s, t) == Len(s) <= Len(t) /\ SubSeq(t, 1, Len(s)) = s

-----------------------------------------------------------------------------
(* Data frames: ordered columns and ordered rows, each row a timestamp     *)
(* (the index label) and one cell per column.                              *)

PriceColumns == <<"Open", "High", "Low", "Close", "Volume">>
\* the name of the series ta.rsi returns, and the column the handler stores it in
LibRsiColumns == <<"RSI_14">>
RsiColumns == <<"RSI">>
MacdColumns == <<"MACD_12_26_9", "MACDh_12_26_9", "MACDs_12_26_9">>
BbColumns == <<"BBL_5_2.0", "BBM_5_2.0", "BBU_5_2.0", "BBB_5_2.0", "BBP_5_2.0">>
SrColumns == <<"Support", "Resistance">>

Range(s) == {s[i] : i \in DOMAIN s}

Index(frame) == [i \in 1..Len(frame.rows) |-> frame.rows[i].ts]
Column(frame, c) == [i \in 1..Len(frame.rows) |-> frame.rows[i].cells[c]]

\* the closing prices the provider can return: flat at 2 with a low of 1 and a
\* high of 3 at chosen positions, a rising ramp, a falling ramp; the first close
\* may be missing.
Closings ==
    LET flat(n, p, q) ==
            [i \in 1..n |-> IF i = p THEN Num(1) ELSE IF i = q THEN Num(3) ELSE Num(2)]
        rise(n) == [i \in 1..n |-> Num(i)]
        fall(n) == [i \in 1..n |-> Num(n + 1 - i)]
        hole(s) == [i \in 1..Len(s) |-> IF i = 1 THEN NaN ELSE s[i]]
        whole == {flat(n, p, q) : n \in 0..MaxBars, p \in 0..MaxPos, q \in 0..MaxPos}
                   \cup {rise(n) : n \in 0..MaxBars} \cup {fall(n) : n \in 0..MaxBars}
    IN  whole \cup {hole(s) : s \in whole}

\* ticker.history(...): one row per bar, timestamps strictly ascending; the
\* close is the series' and every other price cell is the bar's number
HistoryFrame(closes) ==
    [columns |-> PriceColumns,
     rows |-> [i \in 1..Len(closes) |->
                 [ts |-> i,
                  cells |-> [c \in Range(PriceColumns) |->
                               IF c = "Close" THEN closes[i] ELSE Num(i)]]]]

Histories == {HistoryFrame(s) : s \in Closings}

\* what an indicator function of the library can answer for a price frame:
\* nothing, an exception, or its columns over the bars from some bar on.
LibraryFrame(frame, columns, drop) ==
    [kind |-> "frame",
     columns |-> columns,
     rows |-> [i \in 1..(Len(frame.rows) - drop) |->
                 [ts |-> frame.rows[i + drop].ts,
                  cells |-> [c \in Range(columns) |-> Num(frame.rows[i + drop].ts)]]]]

LibraryAnswers(frame, columns) ==
    {None, [kind |-> "raise"]}
      \cup {LibraryFrame(frame, columns, d) : d \in 0..Min({MaxDrop, Len(frame.rows)})}


\* a guard that never sees an empty frame
IsEmptyNever(frame) == FALSE

\* frame.empty
IsEmpty(frame) == Len(frame.rows) = 0

\* the value a series (a frame of one column) has at index label t, NaN where it
\* has none: pandas aligns an assigned series on the index of the frame
ValueAt(series, t) ==
    IF series.kind = "none" THEN NaN
    ELSE IF \E i \in 1..Len(series.rows) : series.rows[i].ts = t
         THEN LET i == CHOOSE i \in 1..Len(series.rows) : series.rows[i].ts = t
              IN  series.rows[i].cells[series.columns[1]]
         ELSE NaN

\* frame[name] = value, where value is None or a series: the column is added
\* after the existing ones (or replaced in place); no row is touched otherwise
SetColumn(frame, name, value) ==
    LET columns == IF name \in Range(frame.columns) THEN frame.columns
                   ELSE Append(frame.columns, name)
    IN  [columns |-> columns,
         rows |-> [i \in 1..Len(frame.rows) |->
                     [ts |-> frame.rows[i].ts,
                      cells |-> [c \in Range(columns) |->
                                   IF c = name THEN ValueAt(value, frame.rows[i].ts)
                                   ELSE frame.rows[i].cells[c]]]]]

\* the rows of `other` whose index label is t, in their order
Matching(other, t) == SelectSeq(other.rows, LAMBDA r : r.ts = t)

\* an inner join: a row of the calling frame with no matching row is dropped
JoinRowInner(row, other) ==
    LET m == Matching(other, row.ts)
    IN  [k \in 1..Len(m) |-> [ts |-> row.ts, cells |-> row.cells @@ m[k].cells]]

\* the rows a left join makes of one row of the calling frame: one per matching
\* row of `other`, or the row itself with missing values when there is none
JoinRow(row, other) ==
    LET m == Matching(other, row.ts)
    IN  IF m = <<>>
        THEN <<[ts |-> row.ts,
                cells |-> row.cells @@ [c \in Range(other.columns) |-> NaN]]>>
        ELSE [k \in 1..Len(m) |-> [ts |-> row.ts, cells |-> row.cells @@ m[k].cells]]

RECURSIVE JoinRows(_, _)
JoinRows(rows, other) ==
    IF rows = <<>> THEN <<>>
    ELSE JoinRow(Head(rows), other) \o JoinRows(Tail(rows), other)

\* frame.join(other): pandas' default, a left join on the index that keeps the
\* calling frame's row order and puts the columns of `other` after its own
Join(frame, other) ==
    [columns |-> frame.columns \o other.columns,
     rows |-> JoinRows(frame.rows, other)]

\* `if macd is not None: df = df.join(macd)` (and the same for bb)
JoinIfComputed(frame, answer) ==
    IF answer.kind # "none" THEN Join(frame, answer) ELSE frame

\* a window one row too long
WindowRowsTooLong(i) == Max({1, i - Window})..i

\* the rows of the rolling window that ends at row i (1-based)
WindowRows(i) == Max({1, i - Window + 1})..i

\* the valid (not missing) values of column c in the window that ends at row i
WindowValues(frame, c, i) ==
    {frame.rows[j].cells[c][1] : j \in {k \in WindowRows(i) : frame.rows[k].cells[c] # NaN}}

\* the number of valid observations in the window that ends at row i
WindowCount(frame, c, i) ==
    Cardinality({k \in WindowRows(i) : frame.rows[k].cells[c] # NaN})

\* series.rolling(window=Window, min_periods=MinPeriods).min() or .max(): at
\* each row the aggregate of the valid values in the window, NaN when the window
\* holds fewer than MinPeriods of them
Rolling(frame, c, how) ==
    [kind |-> "frame",
     columns |-> <<c>>,
     rows |-> [i \in 1..Len(frame.rows) |->
                 [ts |-> frame.rows[i].ts,
                  cells |-> [x \in {c} |->
                               IF WindowCount(frame, c, i) >= MinPeriods
                               THEN Num(IF how = "min" THEN Min(WindowValues(frame, c, i))
                                        ELSE Max(WindowValues(frame, c, i)))
                               ELSE NaN]]]]

\* df["Support"] = ...min(); df["Resistance"] = ...max()
SupportResistance(frame) ==
    LET withSupport == SetColumn(frame, "Support", Rolling(frame, "Close", "min"))
    IN  SetColumn(withSupport, "Resistance", Rolling(withSupport, "Close", "max"))

\* frame.to_markdown(): a header line (the index, then the columns in order) and
\* one line per row (the index label, then the cells in column order)
ToMarkdown(frame) ==
    [kind |-> "markdown",
     header |-> <<"Date">> \o frame.columns,
     lines |-> [i \in 1..Len(frame.rows) |->
                  <<Num(frame.rows[i].ts)>>
                    \o [k \in 1..Len(frame.columns) |-> frame.rows[i].cells[frame.columns[k]]]]]

Text(parts) == [kind |-> "text", text |-> parts]
Raised(where) == [kind |-> "raise", from |-> where]

-----------------------------------------------------------------------------
(* The state before any handler runs, and between two invocations *)

Init ==
    /\ pc = "idle"
    /\ symbol = ""
    /\ calls = <<>>
    /\ warnings = <<>>
    /\ result = NoResult
    /\ fetched = NoFrame
    /\ df = NoFrame
    /\ rsi = None
    /\ macd = None
    /\ bb = None
    /\ news = None
    /\ si = NoLocals
    /\ query = ""
    /\ search_type = ""
    /\ search = None
    /\ warm = FALSE
    /\ ty = NoLocals

\* the handler has returned or raised: the next invocation starts from nothing
Return ==
    /\ pc \in {"done", "raised"}
    /\ pc' = "idle"
    /\ symbol' = ""
    /\ calls' = <<>>
    /\ warnings' = <<>>
    /\ result' = NoResult
    /\ fetched' = NoFrame
    /\ df' = NoFrame
    /\ rsi' = None
    /\ macd' = None
    /\ bb' = None
    /\ news' = None
    /\ si' = NoLocals
    /\ query' = ""
    /\ search_type' = ""
    /\ search' = None
    /\ ty' = NoLocals
    /\ UNCHANGED warm

-----------------------------------------------------------------------------
(* get_price_history *)

PH_Call ==
    /\ pc = "idle"
    /\ \E s \in PriceSymbols : symbol' = s
    /\ pc' = "ph_history"
    /\ UNCHANGED <<calls, warnings, result, priceVars, otherVars, searchVars, warm, ty>>

\* df = ticker.history(...); if df.empty: return "No data available."
PH_History ==
    /\ pc = "ph_history"
    /\ \E h \in Histories :
         /\ fetched' = h
         /\ df' = h
         /\ IF IsEmpty(h)
            THEN pc' = "done" /\ result' = Text(<<"No data available.">>)
            ELSE pc' = "ph_rsi" /\ UNCHANGED result
    /\ calls' = Append(calls, Call("ticker.history", symbol))
    /\ UNCHANGED <<symbol, warnings, rsi, macd, bb, otherVars, searchVars, warm, ty>>

\* df["RSI"] = ta.rsi(df["Close"])
PH_Rsi ==
    /\ pc = "ph_rsi"
    /\ \E a \in LibraryAnswers(df, LibRsiColumns) :
         /\ rsi' = a
         /\ IF a.kind = "raise"
            THEN pc' = "raised" /\ result' = Raised("ta.rsi") /\ UNCHANGED df
            ELSE pc' = "ph_macd" /\ df' = SetColumn(df, "RSI", a) /\ UNCHANGED result
    /\ calls' = Append(calls, Call("ta.rsi", symbol))
    /\ UNCHANGED <<symbol, warnings, fetched, macd, bb, otherVars, searchVars, warm, ty>>

\* macd = ta.macd(df["Close"]); join it, or warn when it is None
PH_Macd ==
    /\ pc = "ph_macd"
    /\ \E a \in LibraryAnswers(df, MacdColumns) :
         /\ macd' = a
         /\ IF a.kind = "raise"
            THEN /\ pc' = "raised" /\ result' = Raised("ta.macd")
                 /\ UNCHANGED <<df, warnings>>
            ELSE /\ pc' = "ph_bbands"
                 /\ df' = JoinIfComputed(df, a)
                 /\ warnings' = IF a.kind = "none" THEN Append(warnings, "MACD could not be calculated")
                                ELSE warnings
                 /\ UNCHANGED result
    /\ calls' = Append(calls, Call("ta.macd", symbol))
    /\ UNCHANGED <<symbol, fetched, rsi, bb, otherVars, searchVars, warm, ty>>

\* bb = ta.bbands(df["Close"]); join it, or warn when it is None
PH_Bbands ==
    /\ pc = "ph_bbands"
    /\ \E a \in LibraryAnswers(df, BbColumns) :
         /\ bb' = a
         /\ IF a.kind = "raise"
            THEN /\ pc' = "raised" /\ result' = Raised("ta.bbands")
                 /\ UNCHANGED <<df, warnings>>
            ELSE /\ pc' = "ph_rolling"
                 /\ df' = JoinIfComputed(df, a)
                 /\ warnings' = IF a.kind = "none"
                                THEN Append(warnings, "Bollinger Bands could not be calculated")
                                ELSE warnings
                 /\ UNCHANGED result
    /\ calls' = Append(calls, Call("ta.bbands", symbol))
    /\ UNCHANGED <<symbol, fetched, rsi, macd, otherVars, searchVars, warm, ty>>

\* the Support and Resistance columns, then response = df.to_markdown(); return
PH_Finish ==
    /\ pc = "ph_rolling"
    /\ df' = SupportResistance(df)
    /\ result' = ToMarkdown(df')
    /\ calls' = calls \o <<Call("rolling.min", symbol), Call("rolling.max", symbol),
                          Call("to_markdown", symbol)>>
    /\ pc' = "done"
    /\ UNCHANGED <<symbol, warnings, fetched, rsi, macd, bb, otherVars, searchVars, warm, ty>>

NextPrice == PH_Call \/ PH_History \/ PH_Rsi \/ PH_Macd \/ PH_Bbands \/ PH_Finish \/ Return

SpecPrice == Init /\ [][NextPrice]_vars


-----------------------------------------------------------------------------
(* Claims about get_price_history *)

Finished == pc = "done" /\ result.kind = "markdown"

\* the frame without the columns in `drop`
WithoutColumns(frame, drop) ==
    LET keep == SelectSeq(frame.columns, LAMBDA c : c \notin drop)
    IN  [columns |-> keep,
         rows |-> [i \in 1..Len(frame.rows) |->
                     [ts |-> frame.rows[i].ts,
                      cells |-> [c \in Range(keep) |-> frame.rows[i].cells[c]]]]]

\* the table of a request that asks only for the indicators in `asked`
TableOf(history, asked) ==
    LET a == IF "rsi" \in asked THEN SetColumn(history, "RSI", rsi) ELSE history
        b == IF "macd" \in asked THEN JoinIfComputed(a, macd) ELSE a
        c == IF "bbands" \in asked THEN JoinIfComputed(b, bb) ELSE b
    IN  SupportResistance(c)

Indicators == {"rsi", "macd", "bbands"}
AnswerOf(x) == IF x = "rsi" THEN rsi ELSE IF x = "macd" THEN macd ELSE bb
ColumnsOf(x) ==
    IF x = "rsi" THEN Range(RsiColumns)
    ELSE IF x = "macd" THEN Range(MacdColumns) ELSE Range(BbColumns)

\* C1: when the request has returned its table, every indicator the library
\* answered None for has none of its columns in the table, and the rest of the
\* table is the table of a request that never asked for that indicator.
C1_NoneIndicatorOmitted ==
    Finished =>
        \A x \in Indicators :
            AnswerOf(x).kind = "none" =>
                /\ ColumnsOf(x) \cap Range(df.columns) = {}
                /\ WithoutColumns(df, ColumnsOf(x)) = TableOf(fetched, Indicators \ {x})

\* C2: a request whose price series is not empty never ends in an exception of
\* an indicator computation: it ends with the table, all three indicators
\* having been computed.
C2_IndicatorFaultContained ==
    (pc \in {"done", "raised"} /\ Len(fetched.rows) > 0) =>
        /\ result.kind = "markdown"
        /\ {"ta.rsi", "ta.macd", "ta.bbands"} \subseteq Ops(calls)

ClosesValid == \A i \in 1..Len(fetched.rows) : fetched.rows[i].cells["Close"] # NaN

\* C4: in a returned table of a series whose closes are all valid, at every row
\* i (0-based) Support is the minimum and Resistance the maximum of the closes
\* of the rows max(0, i - 19) .. i, so both are defined on every row.
C4_SupportResistance ==
    (Finished /\ ClosesValid) =>
        \A i \in 0..(Len(fetched.rows) - 1) :
            LET first == IF i - (Window - 1) > 0 THEN i - (Window - 1) ELSE 0
                closes == {fetched.rows[j + 1].cells["Close"][1] : j \in first..i}
                support == df.rows[i + 1].cells["Support"]
                resistance == df.rows[i + 1].cells["Resistance"]
            IN  /\ support # NaN /\ resistance # NaN
                /\ support[1] \in closes /\ \A v \in closes : support[1] <= v
                /\ resistance[1] \in closes /\ \A v \in closes : resistance[1] >= v

\* a returned table of more than Window valid bars whose lowest close has left
\* the window of the last row, and a short one whose first row is populated
C4_Witness ==
    /\ Finished /\ ClosesValid
    /\ Len(fetched.rows) > Window
    /\ df.rows[1].cells["Support"] # df.rows[Len(df.rows)].cells["Support"]
    /\ df.rows[1].cells["Resistance"] # df.rows[Len(df.rows)].cells["Resistance"]

\* C5: a request whose price series came back empty has returned the text
\* "No data available." (no exception), and the fetch is the only call it made:
\* no indicator, no join, no rolling window, no serialization.
C5_EmptySeries ==
    (pc \notin {"idle", "ph_history"} /\ Len(fetched.rows) = 0) =>
        /\ pc = "done"
        /\ result = Text(<<"No data available.">>)
        /\ Ops(calls) = {"ticker.history"} /\ Len(calls) = 1
        /\ df = fetched
        /\ warnings = <<>>

C5_Witness == pc = "done" /\ Len(fetched.rows) = 0 /\ calls # <<>>


-----------------------------------------------------------------------------
(* Python values of the news and info handlers: None, a str (kind "str"), a  *)
(* dict (kind "dict", d its key -> value map), and texts built by f-strings  *)
(* (kind "text", the parts in order, a text's leading word its first part).  *)

Str(x) == [kind |-> "str", s |-> x]
Dict(f) == [kind |-> "dict", d |-> f]
EmptyMap == [k \in {} |-> None]
IsDict(v) == v.kind = "dict"
Keys(v) == DOMAIN v.d

\* v.get(key, default) on a dict
Get(v, key, default) == IF key \in Keys(v) THEN v.d[key] ELSE default

\* `not v`: None, an empty dict, an empty list, an empty text are falsy
Falsy(v) ==
    \/ v.kind = "none"
    \/ v.kind = "dict" /\ Keys(v) = {}
    \/ v.kind = "list" /\ v.items = <<>>
    \/ v.kind = "text" /\ v.text = <<>>

\* text.startswith(word)
StartsWith(v, word) == v.text # <<>> /\ v.text[1] = word

-----------------------------------------------------------------------------
(* get_stock_news *)

\* longest list of news items the provider returns
MaxNews == 2

NewsFields == {"title", "summary", "pubDate"}

\* the items the provider can put in its list: a mapping whose content is a
\* mapping with any of the three fields (and one more), a mapping without a
\* content entry, a mapping whose content is None, and an item that is no mapping
NewsItems ==
    {Dict([k \in {"id", "content"} |->
             IF k = "id" THEN Str("id")
             ELSE Dict([f \in present \cup {"provider"} |-> Str(f \o " of the item")])])
        : present \in SUBSET NewsFields}
      \cup {Dict([k \in {"id"} |-> Str("id")]),
            Dict([k \in {"id", "content"} |-> IF k = "id" THEN Str("id") ELSE None]),
            Str("item")}

List(items) == [kind |-> "list", items |-> items]

RECURSIVE ListsOf(_, _)
ListsOf(S, n) ==
    IF n = 0 THEN {<<>>}
    ELSE LET shorter == ListsOf(S, n - 1)
         IN  shorter \cup {Append(l, x) : l \in {m \in shorter : Len(m) = n - 1}, x \in S}

\* ticker.get_news(): a list of items, or an exception
NewsAnswers == {List(l) : l \in ListsOf(NewsItems, MaxNews)} \cup {Raised("ticker.get_news")}

\* `isinstance(item, dict) and "content" in item`
HasContent(item) == IsDict(item) /\ "content" \in Keys(item)

\* content.get(...) raises AttributeError when content has no `get`
ProjectionRaises(item) == HasContent(item) /\ ~IsDict(item.d["content"])

\* the simplified item of one provider item
Simplify(item) ==
    LET content == item.d["content"]
    IN  Dict([k \in NewsFields |->
                IF k = "title" THEN Get(content, "title", Str("No title"))
                ELSE IF k = "summary" THEN Get(content, "summary", Str("No summary"))
                ELSE Get(content, "pubDate", Str("No date"))])

\* the loop over the items: the simplified items appended so far, in order,
\* up to the first item whose projection raises
RECURSIVE SimplifiedNews(_)
SimplifiedNews(items) ==
    IF items = <<>> THEN <<>>
    ELSE IF ~HasContent(Head(items)) THEN SimplifiedNews(Tail(items))
    ELSE IF ProjectionRaises(Head(items)) THEN <<>>
    ELSE <<Simplify(Head(items))>> \o SimplifiedNews(Tail(items))

\* whether the loop raises: some item passes the guard and its content is no mapping
LoopRaises(items) == \E i \in 1..Len(items) : ProjectionRaises(items[i])

\* json.dumps(simplified_news, indent=2): the JSON text of the list, its
\* elements in list order, each an object of the three fields
JsonList(items) == [kind |-> "json", array |-> items]

\* a get_stock_news that catches the exception of the provider and returns a
\* text, as get_stock_symbol_lookup does
GetStockNewsGuarded(sym, answer) ==
    IF answer.kind = "raise" THEN Text(<<"Error", " fetching news: ", answer.from>>)
    ELSE IF Falsy(answer) THEN Text(<<"No news articles found for ", sym, ".">>)
    ELSE IF LoopRaises(answer.items) THEN Raised("content.get")
    ELSE JsonList(SimplifiedNews(answer.items))

\* get_stock_news(symbol) for the provider's answer: what it returns or raises
GetStockNews(sym, answer) ==
    IF answer.kind = "raise" THEN answer
    ELSE IF Falsy(answer) THEN Text(<<"No news articles found for ", sym, ".">>)
    ELSE IF LoopRaises(answer.items) THEN Raised("content.get")
    ELSE JsonList(SimplifiedNews(answer.items))

NW_Call ==
    /\ pc = "idle"
    /\ \E s \in Symbols : symbol' = s
    /\ pc' = "nw_get_news"
    /\ UNCHANGED <<calls, warnings, result, priceVars, otherVars, searchVars, warm, ty>>

\* ticker = yf.Ticker(symbol); news = ticker.get_news()
NW_GetNews ==
    /\ pc = "nw_get_news"
    /\ \E a \in NewsAnswers :
         /\ news' = a
         /\ IF a.kind = "raise" THEN pc' = "raised" /\ result' = a
            ELSE pc' = "nw_project" /\ UNCHANGED result
    /\ calls' = Append(calls, Call("ticker.get_news", symbol))
    /\ UNCHANGED <<symbol, warnings, priceVars, si, searchVars, warm, ty>>

\* the empty check, the projection loop and json.dumps
NW_Project ==
    /\ pc = "nw_project"
    /\ result' = GetStockNews(symbol, news)
    /\ pc' = IF result'.kind = "raise" THEN "raised" ELSE "done"
    /\ UNCHANGED <<symbol, calls, warnings, priceVars, otherVars, searchVars, warm, ty>>

NextNews == NW_Call \/ NW_GetNews \/ NW_Project \/ Return

SpecNews == Init /\ [][NextNews]_vars

-----------------------------------------------------------------------------
(* Claims about get_stock_news *)

\* an item with the nested structure: a mapping whose content entry is a mapping
WellFormed(item) ==
    /\ item.kind = "dict"
    /\ "content" \in DOMAIN item.d
    /\ item.d["content"].kind = "dict"

NewsEnded == pc \in {"done", "raised"} /\ news.kind = "list" /\ news.items # <<>>

\* C10: when the request has ended on a non-empty provider list, it has not
\* failed, and its output holds exactly one entry per well-formed item: the
\* items that are no mapping, have no content entry or have a content that is
\* no mapping contribute nothing.
C10_MalformedSkipped ==
    NewsEnded =>
        /\ pc = "done"
        /\ result.kind = "json"
        /\ Len(result.array) = Cardinality({i \in 1..Len(news.items) : WellFormed(news.items[i])})


-----------------------------------------------------------------------------
(* get_stock_symbol_lookup *)

\* most quotes in one answer of the provider's search
MaxQuotes == 2

\* a quote of the provider's search: a mapping that has a symbol (which may be
\* the empty string) or lacks it
Quotes ==
    {Dict([k \in {"shortname"} |-> Str("name")])}
      \cup {Dict([k \in {"symbol"} |-> Str(s)]) : s \in Symbols \cup {""}}

\* yf.Search(query, max_results=1).quotes: an exception of the search, or the
\* list of quotes found
LookupAnswers ==
    {Raised("yf.Search")} \cup {List(l) : l \in ListsOf(Quotes, MaxQuotes)}

\* the text of a str: the empty str has no part
TextOf(v) == Text(IF v.s = "" THEN <<>> ELSE <<v.s>>)

\* get_stock_symbol_lookup without its try/except: the exception of the search
\* reaches the caller
GetStockSymbolLookupUnguarded(q, answer) ==
    IF answer.kind = "raise" THEN answer
    ELSE IF Falsy(answer) \/ Len(answer.items) = 0
    THEN Text(<<"No symbols", " found matching '", q, "'.">>)
    ELSE IF "symbol" \notin Keys(answer.items[1])
    THEN Raised("KeyError")
    ELSE TextOf(answer.items[1].d["symbol"])

\* get_stock_symbol_lookup(query) for the provider's answer; an exception
\* inside the try (of the search, or the KeyError of a quote without a symbol)
\* becomes the "Error looking up symbol" text
GetStockSymbolLookup(q, answer) ==
    IF answer.kind = "raise"
    THEN Text(<<"Error", " looking up symbol: ", answer.from>>)
    ELSE IF Falsy(answer) \/ Len(answer.items) = 0
    THEN Text(<<"No symbols", " found matching '", q, "'.">>)
    ELSE IF "symbol" \notin Keys(answer.items[1])
    THEN Text(<<"Error", " looking up symbol: ", "'symbol'">>)
    ELSE TextOf(answer.items[1].d["symbol"])

-----------------------------------------------------------------------------
(* get_stock_info *)

\* an attribute of the provider's records, of the symbol it was fetched for
Val(of, name) == [kind |-> "val", of |-> of, v |-> name]

\* ticker.info for symbol t: empty, a fund, an equity, a fund of another
\* quoteType, a record without quoteType, or an exception
InfoAnswers(t) ==
    LET fund == {"totalAssets", "navPrice", "fundFamily", "symbol", "volume", "dividendYield"}
        equity == {"currentPrice", "totalRevenue", "totalCash", "symbol", "volume",
                   "dividendYield"}
        typed(type, attributes) ==
            Dict([k \in attributes \cup {"quoteType"} |->
                    IF k = "quoteType" THEN Val(t, type) ELSE Val(t, k)])
    IN  {Dict(EmptyMap), typed("ETF", fund), typed("EQUITY", equity),
         typed("MUTUALFUND", fund), Dict([k \in equity |-> Val(t, k)]),
         Raised("ticker.info")}

\* a financial statement of the provider: a frame whose columns are the
\* period ends (timestamps) and whose index holds the line items
Timestamp(day) == [type |-> "Timestamp", s |-> day]
Label(name) == [type |-> "str", s |-> name]

StatementItems(property) ==
    IF property = "balance_sheet" THEN <<"Total Assets", "Total Debt">>
    ELSE IF property = "cashflow" THEN <<"Operating Cash Flow", "Free Cash Flow">>
    ELSE <<"Total Revenue", "Net Income">>

Statement(t, property) ==
    [kind |-> "dataframe",
     columns |-> <<Timestamp("2024-09-30"), Timestamp("2023-09-30")>>,
     index |-> [i \in 1..Len(StatementItems(property)) |-> Label(StatementItems(property)[i])],
     of |-> t]

\* str(k) of a column or index label
StrOf(label) == IF label.type = "Timestamp" THEN label.s \o " 00:00:00" ELSE label.s

\* df_to_dict_str_keys(df): df.to_dict() maps each column label to the mapping
\* of the index labels to the cells; the keys of both levels become strs
df_to_dict_str_keys(frame) ==
    IF frame.kind = "none" THEN None
    ELSE Dict([k \in {StrOf(frame.columns[j]) : j \in DOMAIN frame.columns} |->
                 Dict([kk \in {StrOf(frame.index[i]) : i \in DOMAIN frame.index} |->
                         Val(frame.of, kk)])])

\* a statement the provider has no figures for
EmptyStatement(t) == [kind |-> "dataframe", columns |-> <<>>, index |-> <<>>, of |-> t]

\* a property of the ticker of symbol t: its frame, an empty frame, None, or
\* an exception
StatementAnswers(t, property) ==
    {Statement(t, property), EmptyStatement(t), None, Raised(property)}

TargetAnswers(t) ==
    {Dict([k \in {"current", "low", "high", "mean", "median"} |-> Val(t, k)]),
     None, Raised("analyst_price_targets")}

\* the answers of ticker.get_news() to the news call of get_stock_info
InfoNewsAnswers ==
    LET item(present) ==
            Dict([k \in {"content"} |-> Dict([f \in present |-> Str(f \o " of the item")])])
    IN  {Raised("ticker.get_news"), List(<<>>),
         List(<<item(NewsFields)>>),
         List(<<item({"title"}), Str("item")>>),
         List(<<Dict([k \in {"content"} |-> None])>>)}

\* the attribute names of the thematic groups
EtfAnalysisKeys ==
    {"totalAssets", "netAssets", "netExpenseRatio", "ytdReturn",
     "threeYearAverageReturn", "fiveYearAverageReturn", "trailingThreeMonthReturns",
     "beta3Year", "dividendYield", "trailingAnnualDividendYield",
     "trailingAnnualDividendRate"}
EtfTradingKeys ==
    {"regularMarketPrice", "navPrice", "volume", "regularMarketVolume",
     "averageVolume", "averageVolume10days", "averageDailyVolume10Day",
     "averageDailyVolume3Month", "bid", "ask", "bidSize", "askSize"}
EtfPriceMovementKeys ==
    {"fiftyTwoWeekLow", "fiftyTwoWeekHigh", "fiftyTwoWeekRange",
     "fiftyTwoWeekChangePercent", "fiftyDayAverage", "twoHundredDayAverage",
     "regularMarketChange", "regularMarketChangePercent"}
EtfFundInfoKeys ==
    {"category", "fundFamily", "longBusinessSummary", "fundInceptionDate",
     "shortName", "longName", "symbol"}
CoreValuationKeys ==
    {"currentPrice", "targetMeanPrice", "targetHighPrice", "targetLowPrice",
     "marketCap", "enterpriseValue", "trailingPE", "forwardPE", "priceToBook",
     "priceToSalesTrailing12Months", "trailingPegRatio"}
FinancialPerformanceKeys ==
    {"totalRevenue", "netIncomeToCommon", "grossProfits", "grossMargins",
     "operatingMargins", "ebitdaMargins", "profitMargins", "earningsGrowth",
     "revenueGrowth", "returnOnAssets", "returnOnEquity", "trailingEps",
     "forwardEps", "epsCurrentYear"}
FinancialHealthKeys ==
    {"totalCash", "totalCashPerShare", "totalDebt", "debtToEquity",
     "currentRatio", "quickRatio", "freeCashflow", "operatingCashflow"}
MarketDataKeys ==
    {"volume", "averageVolume", "beta", "fiftyTwoWeekLow", "fiftyTwoWeekHigh",
     "52WeekChange", "fiftyDayAverage", "twoHundredDayAverage",
     "recommendationMean", "recommendationKey", "numberOfAnalystOpinions"}
DividendInfoKeys ==
    {"dividendRate", "dividendYield", "payoutRatio", "trailingAnnualDividendRate",
     "exDividendDate"}
BalanceSheetKeys ==
    {"Total Assets", "Stockholders Equity", "Working Capital",
     "Cash And Cash Equivalents", "Total Debt", "Net PPE"}
IncomeStmtKeys ==
    {"Total Revenue", "Gross Profit", "Operating Income",
     "Net Income", "Cost Of Revenue", "Research And Development"}
CashFlowKeys ==
    {"Operating Cash Flow", "Free Cash Flow", "Capital Expenditure",
     "Cash Dividends Paid"}

\* {k: info.get(k) for k in keys}
Group(info, keys) == Dict([k \in keys |-> Get(info, k, None)])

\* `keys = {}; if statement: for key in [...]: keys[key] = statement.get(key)`
StatementGroup(statement, keys) ==
    IF Falsy(statement) THEN Dict(EmptyMap) ELSE Group(statement, keys)

\* json.dumps of a mapping: the JSON text of an object, its members in order
JsonObject(names, members) == [kind |-> "json", names |-> names, members |-> members]

\* a fund record that also carries an equity group
EtfNamesWithEquityGroup ==
    <<"stock_type", "etf_analysis", "trading_valuation", "price_movement",
      "fund_information", "market_data_trading", "stock_news">>

\* the members of the fund record, in order
EtfNames ==
    <<"stock_type", "etf_analysis", "trading_valuation", "price_movement",
      "fund_information", "stock_news">>

\* the members of the equity record, in order
EquityNames ==
    <<"stock_type", "core_valuation_metrics", "financial_performance",
      "financial_health", "market_data_trading", "dividend_information",
      "balance_sheet_essentials", "income_statement_key_items",
      "cash_flow_highlights", "analyst_price_targets", "stock_news">>

\* the record of a fund
EtfRecord(l, names) ==
    JsonObject(names,
        [n \in Range(names) |->
            IF n = "stock_type" THEN Str("ETF")
            ELSE IF n = "etf_analysis" THEN Group(l.info, EtfAnalysisKeys)
            ELSE IF n = "trading_valuation" THEN Group(l.info, EtfTradingKeys)
            ELSE IF n = "price_movement" THEN Group(l.info, EtfPriceMovementKeys)
            ELSE IF n = "fund_information" THEN Group(l.info, EtfFundInfoKeys)
            ELSE IF n = "market_data_trading" THEN Group(l.info, MarketDataKeys)
            ELSE l.stock_news])

\* the record of an equity
EquityRecord(l, names) ==
    JsonObject(names,
        [n \in Range(names) |->
            IF n = "stock_type" THEN Str("EQUITY")
            ELSE IF n = "core_valuation_metrics" THEN Group(l.info, CoreValuationKeys)
            ELSE IF n = "financial_performance" THEN Group(l.info, FinancialPerformanceKeys)
            ELSE IF n = "financial_health" THEN Group(l.info, FinancialHealthKeys)
            ELSE IF n = "market_data_trading" THEN Group(l.info, MarketDataKeys)
            ELSE IF n = "dividend_information" THEN Group(l.info, DividendInfoKeys)
            ELSE IF n = "balance_sheet_essentials"
                 THEN StatementGroup(l.balance_sheet, BalanceSheetKeys)
            ELSE IF n = "income_statement_key_items"
                 THEN StatementGroup(l.financials, IncomeStmtKeys)
            ELSE IF n = "cash_flow_highlights" THEN StatementGroup(l.cash_flow, CashFlowKeys)
            ELSE IF n = "analyst_price_targets" THEN l.analyst_price_targets
            ELSE l.stock_news])

\* the response of lines 181-288 for the locals l
Response(l) == IF l.is_etf THEN EtfRecord(l, EtfNames) ELSE EquityRecord(l, EquityNames)


\* a classification that takes every fund-like quoteType for a fund
IsEtfOrFund(info) ==
    /\ Get(info, "quoteType", None).kind = "val"
    /\ Get(info, "quoteType", None).v \in {"ETF", "MUTUALFUND"}

\* `info.get("quoteType") == "ETF"`
IsEtf(info) ==
    Get(info, "quoteType", None).kind = "val" /\ Get(info, "quoteType", None).v = "ETF"

\* the locals at the start of the handler: ticker = yf.Ticker(symbol)
Locals(s) ==
    [requested |-> s, ticker |-> s, info |-> None, correct_symbol |-> None,
     is_etf |-> FALSE, balance_sheet |-> None, cash_flow |-> None,
     quarterly_income_stmt |-> None, analyst_price_targets |-> None,
     financials |-> None, stock_news |-> None]

\* the condition of line 136 on the lookup result
Usable(text) ==
    /\ ~Falsy(text)
    /\ ~StartsWith(text, "No symbols")
    /\ ~StartsWith(text, "Error")
    /\ ~StartsWith(text, "Unable")

\* a handler that fetches the sub-records of every symbol
AfterInfoAlwaysFetching(info) == "si_balance_sheet"

\* where the handler goes once it has a non-empty info (or the retried one)
AfterInfo(info) == IF IsEtf(info) THEN "si_news" ELSE "si_balance_sheet"

\* the retry without `symbol = correct_symbol`
SymbolAfterRetryStale(current, corrected) == current

\* `symbol = correct_symbol` (line 140)
SymbolAfterRetry(current, corrected) == corrected

SI_Call ==
    /\ pc = "idle"
    /\ \E s \in Symbols : symbol' = s /\ si' = Locals(s)
    /\ pc' = "si_info"
    /\ UNCHANGED <<calls, warnings, result, priceVars, news, searchVars, warm, ty>>

\* info = ticker.info; `if not info:` leads to the lookup
SI_Info ==
    /\ pc = "si_info"
    /\ \E a \in InfoAnswers(si.ticker) :
         IF a.kind = "raise"
         THEN pc' = "raised" /\ result' = a /\ UNCHANGED si
         ELSE /\ si' = [si EXCEPT !.info = a, !.is_etf = IsEtf(a)]
              /\ pc' = IF Falsy(a) THEN "si_lookup" ELSE AfterInfo(a)
              /\ UNCHANGED result
    /\ calls' = Append(calls, Call("ticker.info", si.ticker))
    /\ UNCHANGED <<symbol, warnings, priceVars, news, searchVars, warm, ty>>

\* correct_symbol = get_stock_symbol_lookup(symbol); on a usable result
\* ticker = yf.Ticker(correct_symbol), else return the "Unable to find" text
SI_Lookup ==
    /\ pc = "si_lookup"
    /\ \E a \in LookupAnswers :
         LET found == GetStockSymbolLookup(symbol, a)
         IN  IF Usable(found)
             THEN /\ si' = [si EXCEPT !.correct_symbol = found, !.ticker = found.text[1]]
                  /\ pc' = "si_info_retry"
                  /\ UNCHANGED result
             ELSE /\ si' = [si EXCEPT !.correct_symbol = found]
                  /\ pc' = "done"
                  /\ result' = Text(<<"Unable", " to find valid information for '", symbol,
                                      "'. Symbol lookup returned: ">> \o found.text)
    /\ calls' = Append(calls, Call("yf.Search", symbol))
    /\ warnings' = Append(warnings, "No info found, attempting symbol lookup")
    /\ UNCHANGED <<symbol, priceVars, news, searchVars, warm, ty>>

\* a handler that looks the symbol up again when the retry comes back empty
AfterRetryLooping(info) == IF Falsy(info) THEN "si_lookup" ELSE AfterInfo(info)

\* where the handler goes after the retry: the retried info is not tested
\* again, whatever it is
AfterRetry(info) == AfterInfo(info)

\* info = ticker.info of the corrected ticker; symbol = correct_symbol
SI_InfoRetry ==
    /\ pc = "si_info_retry"
    /\ \E a \in InfoAnswers(si.ticker) :
         IF a.kind = "raise"
         THEN pc' = "raised" /\ result' = a /\ UNCHANGED <<si, symbol>>
         ELSE /\ si' = [si EXCEPT !.info = a, !.is_etf = IsEtf(a)]
              /\ symbol' = SymbolAfterRetry(symbol, si.correct_symbol.text[1])
              /\ pc' = AfterRetry(a)
              /\ UNCHANGED result
    /\ calls' = Append(calls, Call("ticker.info", si.ticker))
    /\ UNCHANGED <<warnings, priceVars, news, searchVars, warm, ty>>

\* one try block around all the fetches: the first exception skips the rest
AfterFetchAborting(answer, next) == IF answer.kind = "raise" THEN "si_news" ELSE next

\* a handler that leaves the cash flow out
AfterFetchSkippingCashFlow(answer, next) ==
    IF next = "si_cashflow" THEN "si_quarterly_income_stmt" ELSE next

\* each fetch has its own try block: the handler goes on to the next fetch
\* whatever the answer
AfterFetch(answer, next) == next

\* one guarded fetch: `try: x = convert(ticker.<property>) if ... is not None
\* else None; except Exception: logger.warning(...)`; an exception leaves x None
Guarded(answer) == IF answer.kind = "raise" THEN None ELSE answer

SI_BalanceSheet ==
    /\ pc = "si_balance_sheet"
    /\ \E a \in StatementAnswers(si.ticker, "balance_sheet") :
         /\ si' = [si EXCEPT !.balance_sheet = df_to_dict_str_keys(Guarded(a))]
         /\ warnings' = IF a.kind = "raise"
                        THEN Append(warnings, "Could not fetch balance sheet") ELSE warnings
         /\ pc' = AfterFetch(a, "si_cashflow")
    /\ calls' = Append(calls, Call("ticker.balance_sheet", si.ticker))
    /\ UNCHANGED <<symbol, result, priceVars, news, searchVars, warm, ty>>

SI_CashFlow ==
    /\ pc = "si_cashflow"
    /\ \E a \in StatementAnswers(si.ticker, "cashflow") :
         /\ si' = [si EXCEPT !.cash_flow = df_to_dict_str_keys(Guarded(a))]
         /\ warnings' = IF a.kind = "raise"
                        THEN Append(warnings, "Could not fetch cash flow") ELSE warnings
         /\ pc' = AfterFetch(a, "si_quarterly_income_stmt")
    /\ calls' = Append(calls, Call("ticker.cashflow", si.ticker))
    /\ UNCHANGED <<symbol, result, priceVars, news, searchVars, warm, ty>>

SI_QuarterlyIncomeStmt ==
    /\ pc = "si_quarterly_income_stmt"
    /\ \E a \in StatementAnswers(si.ticker, "quarterly_income_stmt") :
         /\ si' = [si EXCEPT !.quarterly_income_stmt = df_to_dict_str_keys(Guarded(a))]
         /\ warnings' = IF a.kind = "raise"
                        THEN Append(warnings, "Could not fetch quarterly income statement")
                        ELSE warnings
         /\ pc' = AfterFetch(a, "si_analyst_price_targets")
    /\ calls' = Append(calls, Call("ticker.quarterly_income_stmt", si.ticker))
    /\ UNCHANGED <<symbol, result, priceVars, news, searchVars, warm, ty>>

SI_AnalystPriceTargets ==
    /\ pc = "si_analyst_price_targets"
    /\ \E a \in TargetAnswers(si.ticker) :
         /\ si' = [si EXCEPT !.analyst_price_targets = Guarded(a)]
         /\ warnings' = IF a.kind = "raise"
                        THEN Append(warnings, "Could not fetch analyst price targets")
                        ELSE warnings
         /\ pc' = AfterFetch(a, "si_financials")
    /\ calls' = Append(calls, Call("ticker.analyst_price_targets", si.ticker))
    /\ UNCHANGED <<symbol, result, priceVars, news, searchVars, warm, ty>>

SI_Financials ==
    /\ pc = "si_financials"
    /\ \E a \in StatementAnswers(si.ticker, "financials") :
         /\ si' = [si EXCEPT !.financials = df_to_dict_str_keys(Guarded(a))]
         /\ warnings' = IF a.kind = "raise"
                        THEN Append(warnings, "Could not fetch financials") ELSE warnings
         /\ pc' = AfterFetch(a, "si_news")
    /\ calls' = Append(calls, Call("ticker.financials", si.ticker))
    /\ UNCHANGED <<symbol, result, priceVars, news, searchVars, warm, ty>>

\* stock_news = get_stock_news(symbol=symbol), which may raise; then the
\* record of the classification is built, serialized and returned
SI_News ==
    /\ pc = "si_news"
    /\ \E a \in InfoNewsAnswers :
         LET got == GetStockNews(symbol, a)
         IN  /\ news' = a
             /\ IF got.kind = "raise"
                THEN pc' = "raised" /\ result' = got /\ UNCHANGED si
                ELSE /\ si' = [si EXCEPT !.stock_news = got]
                     /\ result' = Response(si')
                     /\ pc' = "done"
    /\ calls' = Append(calls, Call("ticker.get_news", symbol))
    /\ UNCHANGED <<symbol, warnings, priceVars, searchVars, warm, ty>>

NextInfo ==
    \/ SI_Call \/ SI_Info \/ SI_Lookup \/ SI_InfoRetry
    \/ SI_BalanceSheet \/ SI_CashFlow \/ SI_QuarterlyIncomeStmt
    \/ SI_AnalystPriceTargets \/ SI_Financials
    \/ SI_News \/ Return

SpecInfo == Init /\ [][NextInfo]_vars


-----------------------------------------------------------------------------
(* Claims about get_stock_info *)

InInfo == "info" \in DOMAIN si
Returned == InInfo /\ pc = "done"
ReturnedRecord == Returned /\ result.kind = "json"

\* the symbols whose attributes a mapping holds
OwnersIn(v) ==
    IF v.kind # "dict" THEN {}
    ELSE {v.d[k].of : k \in {x \in Keys(v) : v.d[x].kind = "val"}}

\* the symbols whose figures a converted statement holds
OwnersInStatement(v) ==
    IF v.kind # "dict" THEN {}
    ELSE UNION {OwnersIn(v.d[k]) : k \in Keys(v)}

\* the symbols whose data the returned record holds in its groups
OwnersInRecord ==
    UNION {OwnersIn(result.members[n]) : n \in Range(result.names) \ {"stock_type", "stock_news"}}

\* the lookup was made and answered with a symbol
LookupCorrected ==
    /\ InInfo
    /\ si.correct_symbol.kind = "text"
    /\ Len(si.correct_symbol.text) = 1

C7_NotFoundWhenStillEmpty ==
    (Returned /\ Falsy(si.info)) =>
        /\ result.kind = "text"
        /\ StartsWith(result, "Unable")
        /\ result.text[3] = si.requested

FundGroups == {"etf_analysis", "trading_valuation", "price_movement", "fund_information"}
EquityGroups ==
    {"core_valuation_metrics", "financial_performance", "financial_health",
     "market_data_trading", "dividend_information", "balance_sheet_essentials",
     "income_statement_key_items", "cash_flow_highlights", "analyst_price_targets"}

\* C8: the groups of a returned record are exactly the fund groups when the
\* symbol is classified a fund and exactly the equity groups when it is
\* classified an equity; the two sets of group names are disjoint.
C8_GroupsByClassification ==
    ReturnedRecord =>
        LET groups == Range(result.names) \ {"stock_type", "stock_news"}
        IN  /\ DOMAIN result.members = Range(result.names)
            /\ result.members["stock_type"] \in {Str("ETF"), Str("EQUITY")}
            /\ (result.members["stock_type"] = Str("ETF")) <=> si.is_etf
            /\ si.is_etf => groups = FundGroups /\ groups \cap EquityGroups = {}
            /\ ~si.is_etf => groups = EquityGroups /\ groups \cap FundGroups = {}
            /\ FundGroups \cap EquityGroups = {}

\* a returned fund record whose attribute map has attributes that equity
\* groups list too
C8_Witness ==
    /\ ReturnedRecord
    /\ si.is_etf
    /\ {"volume", "dividendYield"} \subseteq Keys(si.info)

SubRecordFetches ==
    <<"ticker.balance_sheet", "ticker.cashflow", "ticker.quarterly_income_stmt",
      "ticker.analyst_price_targets", "ticker.financials">>

Failed(what) == ("Could not fetch " \o what) \in Range(warnings)

\* the calls made after the attribute map was settled
SinceInfo == SelectSeq(calls, LAMBDA c : c.op \notin {"ticker.info", "yf.Search"})

\* C9: once an equity request is past its sub-record fetches, all five were
\* attempted, in order, whichever of them failed; no exception of a sub-record
\* fetch ends the request; and the EQUITY record it returns shows each failed
\* sub-record as absent (an empty group, or null for the analyst targets).
C9_SubRecordFailuresIsolated ==
    /\ (InInfo /\ pc = "raised") =>
          result.from \in {"ticker.info", "ticker.get_news", "content.get"}
    /\ (InInfo /\ ~si.is_etf /\ ~Falsy(si.info)
          /\ (pc \in {"si_news", "done"} \/ (pc = "raised" /\ result.from # "ticker.info"))) =>
          /\ Len(SinceInfo) >= Len(SubRecordFetches)
          /\ \A i \in 1..Len(SubRecordFetches) : SinceInfo[i].op = SubRecordFetches[i]
    /\ (ReturnedRecord /\ ~si.is_etf) =>
          /\ result.members["stock_type"] = Str("EQUITY")
          /\ Failed("balance sheet") =>
               si.balance_sheet = None
                 /\ result.members["balance_sheet_essentials"] = Dict(EmptyMap)
          /\ Failed("cash flow") =>
               si.cash_flow = None /\ result.members["cash_flow_highlights"] = Dict(EmptyMap)
          /\ Failed("financials") =>
               si.financials = None
                 /\ result.members["income_statement_key_items"] = Dict(EmptyMap)
          /\ Failed("analyst price targets") =>
               si.analyst_price_targets = None /\ result.members["analyst_price_targets"] = None
          /\ Failed("quarterly income statement") => si.quarterly_income_stmt = None

\* a returned EQUITY record of a request in which the first and the fourth
\* fetch failed and the fetches after each of them succeeded
C9_Witness ==
    /\ ReturnedRecord /\ ~si.is_etf
    /\ Failed("balance sheet") /\ Failed("analyst price targets")
    /\ ~Failed("cash flow") /\ si.cash_flow.kind = "dict" /\ Keys(si.cash_flow) # {}
    /\ ~Failed("financials") /\ si.financials.kind = "dict" /\ Keys(si.financials) # {}

-----------------------------------------------------------------------------
(* More claims about get_stock_news *)

\* what the projection of one well-formed item should be: the three fields,
\* each the item's own value when it has one and the placeholder otherwise
Placeholder(field) ==
    IF field = "title" THEN Str("No title")
    ELSE IF field = "summary" THEN Str("No summary")
    ELSE Str("No date")

Projected(item) ==
    Dict([f \in {"title", "summary", "pubDate"} |->
            IF f \in DOMAIN item.d["content"].d
            THEN item.d["content"].d[f]
            ELSE Placeholder(f)])

RECURSIVE ProjectedInOrder(_)
ProjectedInOrder(items) ==
    IF items = <<>> THEN <<>>
    ELSE IF WellFormed(Head(items))
    THEN <<Projected(Head(items))>> \o ProjectedInOrder(Tail(items))
    ELSE ProjectedInOrder(Tail(items))

\* C11: when the request has ended on a non-empty provider list, its output is
\* the JSON list of the projections of the well-formed items, in provider
\* order: each has exactly the fields title, summary and pubDate, a field the
\* item has copied unchanged and a missing one replaced by "No title",
\* "No summary" or "No date".
C11_WellFormedProjected ==
    NewsEnded =>
        /\ result.kind = "json"
        /\ result.array = ProjectedInOrder(news.items)

-----------------------------------------------------------------------------
(* get_stock_symbol_lookup and search as tools of their own *)

\* what a caller passes as `query`: a ticker symbol or a company name
Queries == Symbols \cup {"apple"}

LK_Call ==
    /\ pc = "idle"
    /\ \E q \in Queries : query' = q
    /\ pc' = "lk_search"
    /\ UNCHANGED <<symbol, calls, warnings, result, priceVars, otherVars, search_type, search, warm, ty>>

\* search = yf.Search(query, max_results=1), inside the try
LK_Search ==
    /\ pc = "lk_search"
    /\ \E a \in LookupAnswers : search' = a
    /\ calls' = Append(calls, Call("yf.Search", query))
    /\ pc' = "lk_return"
    /\ UNCHANGED <<symbol, warnings, result, priceVars, otherVars, query, search_type, warm, ty>>

\* the rest of the try and its except: every path returns a text
LK_Return ==
    /\ pc = "lk_return"
    /\ result' = GetStockSymbolLookup(query, search)
    /\ pc' = "done"
    /\ UNCHANGED <<symbol, calls, warnings, priceVars, otherVars, searchVars, warm, ty>>

NextLookup == LK_Call \/ LK_Search \/ LK_Return \/ Return

SpecLookup == Init /\ [][NextLookup]_vars

LookupEnded == pc \in {"done", "raised"} /\ search # None

\* C20: get_stock_symbol_lookup ends by returning a text, whatever the provider
\* did: "Error looking up symbol: " and the reason when the search raised,
\* "No symbols found matching '<query>'." when the list of quotes is empty, and
\* the symbol of the first quote when the list has a first quote with a symbol.
C20_LookupAlwaysReturnsText ==
    LookupEnded =>
        /\ pc = "done"
        /\ result.kind = "text"
        /\ search.kind = "raise" =>
             result.text = <<"Error", " looking up symbol: ", search.from>>
        /\ (search.kind = "list" /\ search.items = <<>>) =>
             result.text = <<"No symbols", " found matching '", query, "'.">>
        /\ (search.kind = "list" /\ search.items # <<>>
               /\ "symbol" \in DOMAIN search.items[1].d
               /\ search.items[1].d["symbol"].s # "") =>
             result.text = <<search.items[1].d["symbol"].s>>
        /\ (search.kind = "list" /\ search.items # <<>>
               /\ "symbol" \in DOMAIN search.items[1].d
               /\ search.items[1].d["symbol"].s = "") =>
             result.text = <<>>

\* the provider raised and the caller got the error text; and two quotes were
\* found and the caller got the symbol of the first
C20_Witness ==
    /\ LookupEnded
    /\ search.kind = "list"
    /\ Len(search.items) = 2
    /\ search.items[1] # search.items[2]
    /\ "symbol" \in DOMAIN search.items[1].d
    /\ "symbol" \in DOMAIN search.items[2].d
    /\ result.text = <<"AAPL">>

-----------------------------------------------------------------------------
(* search *)

\* what a caller passes as `search_type`: the three documented words, other
\* spellings of them, and other texts
SearchTypes == {"all", "quotes", "news", "ALL", "Quotes", "News", "lists", ""}

\* str.lower() on the texts of SearchTypes
Lower(text) ==
    CASE text = "ALL" -> "all"
      [] text = "Quotes" -> "quotes"
      [] text = "News" -> "news"
      [] OTHER -> text

\* the news of a search answer: no article or one
SearchNews == {<<>>, <<Dict([k \in {"title"} |-> Str("headline")])>>}

\* yf.Search(query): an exception, or the object that holds what was found
SearchAnswers ==
    {Raised("yf.Search")}
      \cup {[kind |-> "search", quotes |-> List(q), news |-> List(n)] :
               q \in ListsOf(Quotes, MaxQuotes), n \in SearchNews}

\* s.all: the mapping of everything found
All(s) == Dict([k \in {"quotes", "news"} |-> IF k = "quotes" THEN s.quotes ELSE s.news])

\* json.dumps(result, ensure_ascii=False) of a list or of the mapping s.all
JsonDumps(value) ==
    IF value.kind = "list" THEN JsonList(value.items)
    ELSE JsonObject(<<"quotes", "news">>, value.d)

InvalidType == Text(<<"Invalid output_type. Use 'all', 'quotes', or 'news'.">>)

\* a match statement that compares search_type as it was given
MatchExact(s, type) ==
    CASE type = "all" -> JsonDumps(All(s))
      [] type = "quotes" -> JsonDumps(s.quotes)
      [] type = "news" -> JsonDumps(s.news)
      [] OTHER -> InvalidType

\* the match statement on search_type.lower() and the return after it
Match(s, type) ==
    CASE Lower(type) = "all" -> JsonDumps(All(s))
      [] Lower(type) = "quotes" -> JsonDumps(s.quotes)
      [] Lower(type) = "news" -> JsonDumps(s.news)
      [] OTHER -> InvalidType

SE_Call ==
    /\ pc = "idle"
    /\ \E q \in Queries : query' = q
    /\ \E t \in SearchTypes : search_type' = t
    /\ pc' = "se_search"
    /\ UNCHANGED <<symbol, calls, warnings, result, priceVars, otherVars, search, warm, ty>>

\* s = yf.Search(query): made before search_type is looked at, outside any try
SE_Search ==
    /\ pc = "se_search"
    /\ \E a \in SearchAnswers :
         /\ search' = a
         /\ IF a.kind = "raise" THEN pc' = "raised" /\ result' = a
            ELSE pc' = "se_match" /\ UNCHANGED result
    /\ calls' = Append(calls, Call("yf.Search", query))
    /\ UNCHANGED <<symbol, warnings, priceVars, otherVars, query, search_type, warm, ty>>

SE_Match ==
    /\ pc = "se_match"
    /\ result' = Match(search, search_type)
    /\ pc' = "done"
    /\ UNCHANGED <<symbol, calls, warnings, priceVars, otherVars, searchVars, warm, ty>>

NextSearch == SE_Call \/ SE_Search \/ SE_Match \/ Return

SpecSearch == Init /\ [][NextSearch]_vars

SearchEnded == pc \in {"done", "raised"} /\ search # None

\* C12 as stated: `all`, `quotes` and `news` give the provider's combined
\* results, quotes and news; every other search_type gives the invalid-argument
\* message as a normal result, and no error.
C12_OtherValuesRejected ==
    SearchEnded =>
        /\ (search_type = "all" /\ pc = "done") =>
             result = [kind |-> "json", names |-> <<"quotes", "news">>,
                       members |-> [k \in {"quotes", "news"} |->
                                      IF k = "quotes" THEN search.quotes ELSE search.news]]
        /\ (search_type = "quotes" /\ pc = "done") =>
             result = [kind |-> "json", array |-> search.quotes.items]
        /\ (search_type = "news" /\ pc = "done") =>
             result = [kind |-> "json", array |-> search.news.items]
        /\ search_type \notin {"all", "quotes", "news"} =>
             pc = "done" /\ result = InvalidType

\* the spellings of a word that differ only in the case of their letters
Spellings(word) ==
    CASE word = "all" -> {"all", "ALL"}
      [] word = "quotes" -> {"quotes", "Quotes"}
      [] word = "news" -> {"news", "News"}

\* C12, amended: the provider's search is made first and its exception reaches
\* the caller whatever search_type is; otherwise the call returns, and
\* search_type is matched without regard to case: any spelling of `all` gives
\* the combined results, of `quotes` the quotes, of `news` the news, and every
\* other value the invalid-argument message.
C12_MatchedIgnoringCase ==
    SearchEnded =>
        IF search.kind = "raise" THEN pc = "raised" /\ result = search
        ELSE /\ pc = "done"
             /\ search_type \in Spellings("all") =>
                  result = [kind |-> "json", names |-> <<"quotes", "news">>,
                            members |-> [k \in {"quotes", "news"} |->
                                           IF k = "quotes" THEN search.quotes ELSE search.news]]
             /\ search_type \in Spellings("quotes") =>
                  result = [kind |-> "json", array |-> search.quotes.items]
             /\ search_type \in Spellings("news") =>
                  result = [kind |-> "json", array |-> search.news.items]
             /\ search_type \notin Spellings("all") \cup Spellings("quotes") \cup Spellings("news") =>
                  result = InvalidType

\* `News` was asked for, the provider found quotes and an article, and the
\* caller got the article
C12_Witness ==
    /\ SearchEnded
    /\ pc = "done"
    /\ search_type = "News"
    /\ search.quotes.items # <<>>
    /\ search.news.items # <<>>
    /\ result.kind = "json"
    /\ result.array = search.news.items

-----------------------------------------------------------------------------
(* More claims about get_stock_info *)

\* the provider's figures a value holds: the attributes of a mapping and of
\* the mappings inside it
Figures(v) ==
    IF v.kind # "dict" THEN {}
    ELSE {v.d[k] : k \in {x \in Keys(v) : v.d[x].kind = "val"}}
           \cup UNION {{v.d[k].d[kk] : kk \in {x \in Keys(v.d[k]) : v.d[k].d[x].kind = "val"}}
                         : k \in {x \in Keys(v) : v.d[x].kind = "dict"}}

SubRecords ==
    {"balance_sheet", "cash_flow", "quarterly_income_stmt", "financials",
     "analyst_price_targets"}

\* the sub-record was fetched and has figures
Fetched(local) == Figures(si[local]) # {}

\* some member of the returned record holds a figure of the sub-record
Represented(local) ==
    \E n \in Range(result.names) : Figures(si[local]) \cap Figures(result.members[n]) # {}

\* C13: in a record returned for a symbol that is no fund, each of the five
\* sub-records that was fetched with figures is represented: some member of
\* the record holds figures of it.
C13_SubRecordsRepresented ==
    (ReturnedRecord /\ result.members["stock_type"] # Str("ETF")) =>
        \A local \in SubRecords : Fetched(local) => Represented(local)


\* the attribute map the request settled on says the symbol is a fund
SettledOnFund ==
    /\ InInfo
    /\ si.info.kind = "dict"
    /\ "quoteType" \in DOMAIN si.info.d
    /\ si.info.d["quoteType"].v = "ETF"

\* C14: a request whose attribute map says ETF makes none of the five
\* sub-record fetches and holds no sub-record, and the record it returns has no
\* balance-sheet, income-statement, cash-flow or analyst-target group.
C14_FundWithoutSubRecords ==
    /\ SettledOnFund =>
         /\ Ops(calls) \cap Range(SubRecordFetches) = {}
         /\ \A local \in SubRecords : si[local] = None
    /\ (SettledOnFund /\ ReturnedRecord) =>
         Range(result.names)
           \cap {"balance_sheet_essentials", "income_statement_key_items",
                 "cash_flow_highlights", "analyst_price_targets"} = {}

\* a fund record returned after the attribute map and the news alone were fetched
C14_Witness ==
    /\ SettledOnFund
    /\ ReturnedRecord
    /\ [i \in 1..Len(calls) |-> calls[i].op] = <<"ticker.info", "ticker.get_news">>


\* the positions in the call log of the calls of one operation
CallsOf(op) == {i \in DOMAIN calls : calls[i].op = op}

\* C16: a request looks a symbol up at most once, as its second call, right
\* after a first attribute map that came back empty; it fetches the attribute
\* map at most twice, the second time right after the lookup; there is no
\* lookup and no attribute fetch after that.
C16_FallbackBounded ==
    InInfo =>
        /\ Cardinality(CallsOf("yf.Search")) <= 1
        /\ Cardinality(CallsOf("ticker.info")) <= 2
        /\ CallsOf("yf.Search") \subseteq {2}
        /\ CallsOf("ticker.info") \subseteq {1, 3}
        /\ 3 \in CallsOf("ticker.info") => 2 \in CallsOf("yf.Search")
        /\ 2 \in CallsOf("yf.Search") => 1 \in CallsOf("ticker.info")
        /\ (Len(calls) = 2 /\ 2 \in CallsOf("yf.Search")) => si.info = Dict(EmptyMap)

\* a record returned after a retry that came back empty too: one lookup and
\* two attribute fetches were made, and no more
C16_Witness ==
    /\ ReturnedRecord
    /\ si.info = Dict(EmptyMap)
    /\ CallsOf("yf.Search") = {2}
    /\ CallsOf("ticker.info") = {1, 3}
    /\ Len(calls) > 3


\* the operations of the call log, in order
OpsInOrder == [i \in 1..Len(calls) |-> calls[i].op]

\* the round trips of a whole request, in the order it has to make them:
\* with or without the fallback, with the sub-records (an equity) or without
RoundTrips(fallback, equity) ==
    <<"ticker.info">>
      \o (IF fallback THEN <<"yf.Search", "ticker.info">> ELSE <<>>)
      \o (IF equity THEN SubRecordFetches ELSE <<>>)
      \o <<"ticker.get_news">>

\* C17: the round trips of a request are made one after the other in a fixed
\* order: the attribute map; only if it was empty, the lookup and the second
\* attribute fetch; for an equity the balance sheet, cash flow, quarterly
\* income statement, analyst targets and financials, in that order; then the
\* news. A record is returned only after all of them.
C17_RoundTripsInOrder ==
    InInfo =>
        /\ \E fallback, equity \in BOOLEAN : IsPrefix(OpsInOrder, RoundTrips(fallback, equity))
        /\ (Len(calls) >= 2 /\ calls[2].op = "yf.Search") => calls[2].of = si.requested
        /\ ReturnedRecord =>
             OpsInOrder = RoundTrips(2 \in CallsOf("yf.Search"),
                                     result.members["stock_type"] = Str("EQUITY"))

\* an equity record returned after the fallback: all nine round trips were made
C17_Witness ==
    /\ ReturnedRecord
    /\ Len(calls) = 9
    /\ OpsInOrder = RoundTrips(TRUE, TRUE)


\* C18: a returned record says ETF exactly when the attribute map the request
\* settled on has a quoteType equal to "ETF", and EQUITY for every other map: one
\* with another quoteType, also a fund-like one, and one without a quoteType,
\* whatever other attributes it has.
C18_FundOnlyByQuoteType ==
    ReturnedRecord =>
        /\ SettledOnFund => result.members["stock_type"] = Str("ETF")
        /\ ~SettledOnFund => result.members["stock_type"] = Str("EQUITY")

\* a record returned as EQUITY for a map with quoteType MUTUALFUND and the
\* attributes of a fund
C18_Witness ==
    /\ ReturnedRecord
    /\ "quoteType" \in DOMAIN si.info.d
    /\ si.info.d["quoteType"].v = "MUTUALFUND"
    /\ {"fundFamily", "navPrice", "totalAssets"} \subseteq DOMAIN si.info.d
    /\ result.members["stock_type"] = Str("EQUITY")

-----------------------------------------------------------------------------
(* More claims about get_price_history *)

\* the columns an indicator contributes: its own when it was computed, none
\* when the library answered None
WhenComputed(answer, columns) == IF answer.kind = "frame" THEN columns ELSE <<>>

\* C19: the table a request returns has one line per timestamp of the fetched
\* series, in its order, and its columns are, after the date, the price
\* columns, then the columns of RSI, of MACD and of the Bollinger Bands that
\* were computed, in that order, then Support, then Resistance.
C19_ColumnsInJoinOrder ==
    Finished =>
        /\ result.header =
             <<"Date">> \o PriceColumns
               \o WhenComputed(rsi, RsiColumns)
               \o WhenComputed(macd, MacdColumns)
               \o WhenComputed(bb, BbColumns)
               \o SrColumns
        /\ Len(result.lines) = Len(fetched.rows)
        /\ \A i \in 1..Len(result.lines) :
             /\ Len(result.lines[i]) = Len(result.header)
             /\ result.lines[i][1] = <<fetched.rows[i].ts>>

-----------------------------------------------------------------------------
(* The server: one invocation after the other, of any tool *)

\* a server whose module keeps the locals of get_stock_info (the Ticker and
\* what was fetched through it) after the handler has returned
ServerReturnKeepingTicker ==
    /\ pc \in {"done", "raised"}
    /\ pc' = "idle"
    /\ symbol' = ""
    /\ calls' = <<>>
    /\ warnings' = <<>>
    /\ result' = NoResult
    /\ fetched' = NoFrame
    /\ df' = NoFrame
    /\ rsi' = None
    /\ macd' = None
    /\ bb' = None
    /\ news' = None
    /\ query' = ""
    /\ search_type' = ""
    /\ search' = None
    /\ warm' = TRUE
    /\ UNCHANGED ty
    /\ UNCHANGED si

\* a handler returns to the server: its parameters and locals are gone, and the
\* module has no variable a handler writes (only the logger and the FastMCP
\* object); what stays is that an invocation was served
ServerReturn ==
    /\ pc \in {"done", "raised"}
    /\ pc' = "idle"
    /\ symbol' = ""
    /\ calls' = <<>>
    /\ warnings' = <<>>
    /\ result' = NoResult
    /\ fetched' = NoFrame
    /\ df' = NoFrame
    /\ rsi' = None
    /\ macd' = None
    /\ bb' = None
    /\ news' = None
    /\ si' = NoLocals
    /\ query' = ""
    /\ search_type' = ""
    /\ search' = None
    /\ warm' = TRUE
    /\ UNCHANGED ty

NextServer ==
    \/ PH_Call \/ PH_History \/ PH_Rsi \/ PH_Macd \/ PH_Bbands \/ PH_Finish
    \/ NW_Call \/ NW_GetNews \/ NW_Project
    \/ SI_Call \/ SI_Info \/ SI_Lookup \/ SI_InfoRetry
    \/ SI_BalanceSheet \/ SI_CashFlow \/ SI_QuarterlyIncomeStmt
    \/ SI_AnalystPriceTargets \/ SI_Financials \/ SI_News
    \/ LK_Call \/ LK_Search \/ LK_Return
    \/ SE_Call \/ SE_Search \/ SE_Match
    \/ ServerReturn

SpecServer == Init /\ [][NextServer]_vars


\* between two invocations the server is in the state it started in, apart
\* from the record that it has served
IdleIsInitial ==
    pc = "idle" =>
        /\ symbol = "" /\ query = "" /\ search_type = ""
        /\ calls = <<>> /\ warnings = <<>> /\ result = NoResult
        /\ fetched = NoFrame /\ df = NoFrame
        /\ rsi = None /\ macd = None /\ bb = None
        /\ news = None /\ si = NoLocals /\ search = None

\* whatever of the provider or the library the running invocation holds, it
\* asked for itself, for its own arguments; and it has no result before it has
\* asked the provider
FreshlyFetched ==
    /\ fetched # NoFrame => Call("ticker.history", symbol) \in Range(calls)
    /\ rsi # None => Call("ta.rsi", symbol) \in Range(calls)
    /\ macd # None => Call("ta.macd", symbol) \in Range(calls)
    /\ bb # None => Call("ta.bbands", symbol) \in Range(calls)
    /\ news # None => Call("ticker.get_news", symbol) \in Range(calls)
    /\ search # None => Call("yf.Search", query) \in Range(calls)
    /\ InInfo =>
         /\ si.info # None => Call("ticker.info", si.requested) \in Range(calls)
         /\ si.correct_symbol # None => Call("yf.Search", si.requested) \in Range(calls)
         /\ si.balance_sheet # None => Call("ticker.balance_sheet", si.ticker) \in Range(calls)
         /\ si.cash_flow # None => Call("ticker.cashflow", si.ticker) \in Range(calls)
         /\ si.quarterly_income_stmt # None =>
              Call("ticker.quarterly_income_stmt", si.ticker) \in Range(calls)
         /\ si.analyst_price_targets # None =>
              Call("ticker.analyst_price_targets", si.ticker) \in Range(calls)
         /\ si.financials # None => Call("ticker.financials", si.ticker) \in Range(calls)
         /\ si.stock_news # None => Call("ticker.get_news", symbol) \in Range(calls)
    /\ ~InInfo => si = NoLocals
    /\ result # NoResult => calls # <<>>

\* the result of an invocation that has ended is the one its tool computes
\* from its arguments and the answers it got itself (for get_price_history,
\* the text of the table it built)
ResultOfOwnAnswers ==
    pc \in {"done", "raised"} =>
        /\ Finished => result = ToMarkdown(df)
        /\ (news # None /\ ~InInfo) => result = GetStockNews(symbol, news)
        /\ ReturnedRecord => result = Response(si)
        /\ (search # None /\ search.kind = "list") =>
             result = GetStockSymbolLookup(query, search)
        /\ (search # None /\ search.kind = "search") => result = Match(search, search_type)
        /\ (search # None /\ search.kind = "raise") =>
             result \in {search, GetStockSymbolLookup(query, search)}

-----------------------------------------------------------------------------
(* The news fetch of get_stock_info *)

\* get_stock_info has called get_stock_news and the provider has answered it
NewsAnswered == InInfo /\ news # None

\* C21: once the provider has answered the news call of get_stock_info, an
\* exception it raised has ended the request: the caller got that exception
\* and no record, whatever of the attribute map and the sub-records had been
\* obtained; and an empty news list has not: the request returned its record,
\* whose stock_news is the text "No news articles found for <symbol>.".
C21_NewsFaultPropagates ==
    NewsAnswered =>
        /\ news.kind = "raise" =>
             /\ pc = "raised"
             /\ result = news
             /\ si.stock_news = None
        /\ (news.kind = "list" /\ news.items = <<>>) =>
             /\ pc = "done"
             /\ result.kind = "json"
             /\ result.members["stock_news"] =
                  [kind |-> "text", text |-> <<"No news articles found for ", symbol, ".">>]

\* the provider raised on the news call of an equity request that had obtained
\* its attribute map and all five sub-records, none of them with a warning
C21_Witness ==
    /\ NewsAnswered
    /\ news.kind = "raise"
    /\ pc = "raised"
    /\ si.info.kind = "dict" /\ DOMAIN si.info.d # {}
    /\ \A local \in SubRecords : Fetched(local)
    /\ warnings = <<>>

-----------------------------------------------------------------------------
(* get_stock_price_yfinance (src/mcp/test.py) *)

\* most attributes in the provider's attribute map
MaxAttributes == 2
\* conversions of one attribute after which the model stops counting
MaxAttempts == 4

\* `while retries < 3` and `if retries == 3`
Retries == 3

\* the keys of the attribute map: a str, written as its words, or a key that
\* is no str
StrKey(words) == [type |-> "str", words |-> words]
IntKey(n) == [type |-> "int", n |-> n]
AttributeKeys ==
    {StrKey(<<"exDividend", "Date">>), StrKey(<<"mostRecent", "Quarter">>),
     StrKey(<<"up", "time">>), StrKey(<<"dividend", "Rate">>), StrKey(<<"symbol">>),
     IntKey(0)}

\* the values: seconds since the epoch, which the platform's datetime can
\* represent or not, None, a text
Epoch(n, representable) == [kind |-> "int", n |-> n, representable |-> representable]
AttributeValues == {Epoch(0, TRUE), Epoch(1, FALSE), None, Str("n/a")}

Attribute(key, value) == [key |-> key, value |-> value]

\* the attribute maps of up to n attributes, in every insertion order, no key twice
RECURSIVE InfosOf(_)
InfosOf(n) ==
    IF n = 0 THEN {<<>>}
    ELSE LET shorter == InfosOf(n - 1)
             longest == {m \in shorter : Len(m) = n - 1}
         IN  shorter
               \cup UNION {{Append(m, Attribute(k, v)) :
                              m \in {x \in longest : \A i \in 1..Len(x) : x[i].key # k},
                              v \in AttributeValues}
                             : k \in AttributeKeys}

\* ticker.info: an attribute map, or an exception
PriceInfoAnswers ==
    {[kind |-> "map", items |-> m] : m \in InfosOf(MaxAttributes)}
      \cup {Raised("ticker.info")}

\* isinstance(key, str)
IsStr(key) == key.type = "str"

\* str.lower() on a word of a key
LowerWord(word) ==
    CASE word = "Date" -> "date"
      [] word = "Quarter" -> "quarter"
      [] word = "Rate" -> "rate"
      [] OTHER -> word

\* key.lower().endswith(("date", "start", "end", "timestamp", "time", "quarter"))
DateLike(key) ==
    LowerWord(key.words[Len(key.words)])
      \in {"date", "start", "end", "timestamp", "time", "quarter"}

\* datetime.fromtimestamp(value).strftime("%Y-%m-%d %H:%M:%S"): the text of the
\* time, a TypeError for a value that is no number, another exception
\* (ValueError, OverflowError, OSError) for a number out of range
Conversion(value) ==
    IF value.kind # "int" THEN "TypeError"
    ELSE IF value.representable THEN "ok" ELSE "other"

Formatted(value) == [kind |-> "strftime", of |-> value.n]

\* json.dumps turns a key that is no str into its text
JsonKey(key) == IF IsStr(key) THEN key.words ELSE <<"0">>

\* the locals once the attribute map is fetched; `fetched` keeps the map as it
\* came and `ends` how the loop left each attribute (history variables)
PriceLocals(info) ==
    [info |-> info, fetched |-> info, at |-> 0, retries |-> 0, attempts |-> 0, ends |-> <<>>]

End(how, attempts) == [how |-> how, attempts |-> attempts]

\* a handler that forgets to count the TypeError
AfterTypeErrorStuck(retries) == retries

\* `retries += 1`
AfterTypeError(retries) == retries + 1

TY_Call ==
    /\ pc = "idle"
    /\ \E s \in Symbols : symbol' = s
    /\ pc' = "ty_info"
    /\ UNCHANGED <<calls, warnings, result, priceVars, otherVars, searchVars, warm, ty>>

\* ticker = yf.Ticker(symbol); info = ticker.info
TY_Info ==
    /\ pc = "ty_info"
    /\ \E a \in PriceInfoAnswers :
         IF a.kind = "raise"
         THEN pc' = "raised" /\ result' = a /\ UNCHANGED ty
         ELSE ty' = PriceLocals(a.items) /\ pc' = "ty_for" /\ UNCHANGED result
    /\ calls' = Append(calls, Call("ticker.info", symbol))
    /\ UNCHANGED <<symbol, warnings, priceVars, otherVars, searchVars, warm>>

\* the head of `for key, value in info.items()` and the two tests on the key:
\* the loop is left after the last attribute, an attribute whose key is no str
\* or not date-like is passed over, another one starts the retry loop
TY_For ==
    /\ pc = "ty_for"
    /\ IF ty.at = Len(ty.info)
       THEN pc' = "ty_dumps" /\ UNCHANGED ty
       ELSE LET key == ty.info[ty.at + 1].key
            IN  IF ~IsStr(key)
                THEN /\ ty' = [ty EXCEPT !.at = @ + 1, !.ends = Append(@, End("no str", 0))]
                     /\ pc' = "ty_for"
                ELSE IF ~DateLike(key)
                THEN /\ ty' = [ty EXCEPT !.at = @ + 1, !.ends = Append(@, End("no date", 0))]
                     /\ pc' = "ty_for"
                ELSE /\ ty' = [ty EXCEPT !.at = @ + 1, !.retries = 0, !.attempts = 0]
                     /\ pc' = "ty_while"
    /\ UNCHANGED <<symbol, calls, warnings, result, priceVars, otherVars, searchVars, warm>>

\* one turn of `while retries < 3`: the test, one conversion of `value` (the
\* value the attribute had when the for loop reached it) and its except clauses
TY_While ==
    /\ pc = "ty_while"
    /\ ty.attempts < MaxAttempts
    /\ LET value == ty.fetched[ty.at].value
           tried == ty.attempts + 1
       IN  IF ~(ty.retries < Retries)
           THEN /\ ty' = [ty EXCEPT !.ends = Append(@, End("exhausted", ty.attempts))]
                /\ pc' = "ty_for"
                /\ UNCHANGED warnings
           ELSE IF Conversion(value) = "ok"
           THEN /\ ty' = [ty EXCEPT !.info[ty.at].value = Formatted(value),
                                    !.attempts = tried,
                                    !.ends = Append(@, End("ok", tried))]
                /\ pc' = "ty_for"
                /\ UNCHANGED warnings
           ELSE IF Conversion(value) = "TypeError"
           THEN /\ warnings' = Append(warnings, "TypeError converting")
                /\ IF AfterTypeError(ty.retries) = Retries
                   THEN /\ ty' = [ty EXCEPT !.retries = AfterTypeError(@),
                                            !.attempts = tried,
                                            !.ends = Append(@, End("TypeError", tried))]
                        /\ pc' = "ty_for"
                   ELSE /\ ty' = [ty EXCEPT !.retries = AfterTypeError(@), !.attempts = tried]
                        /\ pc' = "ty_while"
           ELSE /\ ty' = [ty EXCEPT !.attempts = tried, !.ends = Append(@, End("other", tried))]
                /\ pc' = "ty_for"
                /\ UNCHANGED warnings
    /\ UNCHANGED <<symbol, calls, result, priceVars, otherVars, searchVars, warm>>

\* return json.dumps(info, ensure_ascii=False)
TY_Dumps ==
    /\ pc = "ty_dumps"
    /\ result' = JsonObject([i \in 1..Len(ty.info) |-> JsonKey(ty.info[i].key)],
                            [i \in 1..Len(ty.info) |-> ty.info[i].value])
    /\ pc' = "done"
    /\ UNCHANGED <<symbol, calls, warnings, priceVars, otherVars, searchVars, warm, ty>>

NextConvert == TY_Call \/ TY_Info \/ TY_For \/ TY_While \/ TY_Dumps \/ Return

SpecConvert == Init /\ [][NextConvert]_vars

\* the interpreter goes on running the handler it has started
SpecConvertFair == SpecConvert /\ WF_vars(NextConvert)


InConvert == "info" \in DOMAIN ty

\* the key is a str that ends, in lower case, with one of the six date words
DateLikeKey(key) ==
    /\ key.type = "str"
    /\ key.words[Len(key.words)] \in {"Date", "Quarter", "time"}

\* what the loop has done so far: a date-like attribute was converted between
\* one and three times, every other attribute never; the retry loop goes on
\* only after a TypeError and before the third; it was left by the first
\* success, the third TypeError or the first other exception; an attribute
\* whose conversion failed has the value it came with; and when the handler
\* has returned, every attribute was gone through and is in the output
ConvertedAtMostThrice ==
    InConvert =>
        /\ ty.attempts <= Retries
        /\ pc = "ty_while" => ty.attempts = ty.retries /\ ty.retries < Retries
        /\ Len(ty.info) = Len(ty.fetched)
        /\ \A i \in 1..Len(ty.ends) :
             LET e == ty.ends[i]
                 was == ty.fetched[i]
                 now == ty.info[i]
             IN  /\ now.key = was.key
                 /\ e.how \in {"ok", "TypeError", "other", "no str", "no date"}
                 /\ DateLikeKey(was.key) <=> e.how \in {"ok", "TypeError", "other"}
                 /\ DateLikeKey(was.key) <=> e.attempts \in 1..Retries
                 /\ ~DateLikeKey(was.key) => e.attempts = 0
                 /\ e.how = "ok" => e.attempts = 1 /\ now.value # was.value
                 /\ e.how = "TypeError" => e.attempts = Retries
                 /\ e.how = "other" => e.attempts = 1
                 /\ e.how # "ok" => now.value = was.value
        /\ pc = "done" =>
             /\ Len(ty.ends) = Len(ty.info)
             /\ Len(result.names) = Len(ty.fetched)
             /\ \A i \in 1..Len(ty.info) : result.members[i] = ty.info[i].value

\* C22: the conversion loop of get_stock_price_yfinance converts a date-like
\* attribute at most three times, ends with the first success, the third
\* TypeError or the first other exception, leaves a value it could not convert
\* as it was and goes on to the remaining attributes; and every request that
\* has entered the loop comes to its return.
C22_RetryLoopTerminates ==
    /\ []ConvertedAtMostThrice
    /\ (pc \in {"ty_for", "ty_while"}) ~> (pc = "done")

\* a request has returned whose first attribute was given up after the third
\* TypeError and whose second attribute was converted
C22_Witness ==
    /\ InConvert
    /\ pc = "done"
    /\ Len(ty.ends) = 2
    /\ ty.ends[1] = [how |-> "TypeError", attempts |-> 3]
    /\ ty.ends[2].how = "ok"
    /\ ty.info[1] = ty.fetched[1]
    /\ ty.info[2].value = [kind |-> "strftime", of |-> 0]

=============================================================================
